---- MODULE Spec2Model ----
(***************************************************************************)
(* A model of springer_downloader: the Catalog class of                    *)
(* src/springer/catalog.py (identity, cache file, memoized table, package  *)
(* groups, the download loop) and the `download` command of                *)
(* src/springer/__main__.py.                                               *)
(*                                                                         *)
(* A Python str is a sequence of tokens.  A token is one character, except *)
(* that a long literal of the program (a base URL) is kept as one token.   *)
(***************************************************************************)
EXTENDS Integers, Sequences, FiniteSets, TLC

\* ------------------------------------------------------------------------
\* Bounds of the model
\* ------------------------------------------------------------------------

\* Rows of a catalog spreadsheet.
MaxRows == 3

\* Characters of a source reference (DOI URL column).
MaxRefLen == 5

\* ------------------------------------------------------------------------
\* str
\* ------------------------------------------------------------------------

\* The characters of the model, in code point order.
Alphabet ==
  <<" ", "-", ".", "/", "0", "1", "A", "B", "S", "T", "_", "a", "b", "s", "t", "x", "y", "z">>

\* Position of a character in code point order (Python compares str by code point).
Ord(c) == CHOOSE i \in 1..Len(Alphabet) : Alphabet[i] = c

\* str.casefold on one character.
Casefold(c) ==
  CASE c = "A" -> "a"
    [] c = "B" -> "b"
    [] c = "S" -> "s"
    [] c = "T" -> "t"
    [] OTHER -> c

RECURSIVE StrLess(_, _)
\* a < b on str: lexicographic by code point, a proper prefix is smaller.
StrLess(a, b) ==
  IF b = <<>> THEN FALSE
  ELSE IF a = <<>> THEN TRUE
  ELSE IF a[1] = b[1] THEN StrLess(Tail(a), Tail(b))
  ELSE Ord(a[1]) < Ord(b[1])

RECURSIVE Flatten(_)
\* "".join(parts)
Flatten(parts) ==
  IF parts = <<>> THEN <<>> ELSE parts[1] \o Flatten(Tail(parts))

\* str.replace(old, new) for a single character old.
Replace(s, old, new) == [k \in 1..Len(s) |-> IF s[k] = old THEN new ELSE s[k]]

RECURSIVE Split(_, _)
\* s.split(sep) for a single character sep: always at least one segment.
Split(s, sep) ==
  IF \A k \in 1..Len(s) : s[k] # sep THEN <<s>>
  ELSE LET p == CHOOSE k \in 1..Len(s) : s[k] = sep /\ \A j \in 1..(k - 1) : s[j] # sep
       IN  <<SubSeq(s, 1, p - 1)>> \o Split(SubSeq(s, p + 1, Len(s)), sep)

RECURSIVE Join(_, _)
\* sep.join(parts)
Join(sep, parts) ==
  IF parts = <<>> THEN <<>>
  ELSE IF Len(parts) = 1 THEN parts[1]
  ELSE parts[1] \o sep \o Join(sep, Tail(parts))

\* seq[-1:]
LastOne(seq) == IF Len(seq) <= 1 THEN seq ELSE SubSeq(seq, Len(seq), Len(seq))

\* seq[-2:]
LastTwo(seq) == IF Len(seq) <= 2 THEN seq ELSE SubSeq(seq, Len(seq) - 1, Len(seq))

\* re.search(pat, s, re.IGNORECASE), which is what Series.str.contains(pat,
\* case=False) evaluates per value (regex=True is its default), for patterns
\* made of literal characters and of ".", which matches any character.
Contains(s, pat) ==
  \E i \in 0..(Len(s) - Len(pat)) :
    \A j \in 1..Len(pat) : pat[j] = "." \/ Casefold(pat[j]) = Casefold(s[i + j])

\* ------------------------------------------------------------------------
\* constants.py, urls.py
\* ------------------------------------------------------------------------

Language == <<"en", "de">>

Topic == <<"all", "med">>

\* Language.name and Topic.name, the member names used as directory names.
LanguageName(l) == IF l = "en" THEN <<"English">> ELSE <<"German">>

TopicName(t) == IF t = "all" THEN <<"All_Disciplines">> ELSE <<"Emergency_Nursing">>

FileFormat == {"pdf", "epub"}

\* FileFormat.suffix
Suffix(f) == <<".", f>>

\* urls["catalogs"]: the (language, topic) pairs that have a source URL.
CatalogUrls ==
  [p \in {<<"en", "all">>, <<"de", "all">>, <<"de", "med">>} |->
     CASE p = <<"en", "all">> -> "SPRINGER_CATALOG_EN_URL"
       [] p = <<"de", "all">> -> "SPRINGER_CATALOG_DE_URL"
       [] p = <<"de", "med">> -> "SPRINGER_NURSING_CATALOG_DE_URL"]

\* urls["content"]
ContentUrls ==
  [f \in FileFormat |->
     IF f = "pdf" THEN "https://link.springer.com/content/pdf"
     ELSE "https://link.springer.com/download/epub"]

\* itertools.product(Language, Topic), in its order.
Product ==
  [k \in 1..(Len(Language) * Len(Topic)) |->
     <<Language[((k - 1) \div Len(Topic)) + 1], Topic[((k - 1) % Len(Topic)) + 1]>>]

\* ------------------------------------------------------------------------
\* The catalog spreadsheet and the table made from it (Catalog.dataframe)
\* ------------------------------------------------------------------------

\* Rows a spreadsheet is made of: Book Title, Author, the package name column
\* and DOI URL.  Two rows share a title (they differ by author), two rows share
\* a DOI and differ in their titles by punctuation only.
RowPool ==
  { [title |-> <<"b">>, author |-> <<"x">>, package_name |-> <<"S">>,
     doi_url |-> <<"x", "/", "1", ".", "0", "/", "a">>],
    [title |-> <<"A", "b">>, author |-> <<"y">>, package_name |-> <<"S", " ", "T">>,
     doi_url |-> <<"x", "/", "1", ".", "0", "/", "b">>],
    [title |-> <<"A", "b">>, author |-> <<"x">>, package_name |-> <<"T">>,
     doi_url |-> <<"x", "/", "1", ".", "0", "/", "z">>],
    [title |-> <<"b", ".">>, author |-> <<"y">>, package_name |-> <<"S", " ", "T">>,
     doi_url |-> <<"x", "/", "1", ".", "0", "/", "a">>] }

\* The spreadsheets: up to MaxRows distinct rows, in any order.
Snapshots ==
  UNION { { s \in [1..n -> RowPool] : \A i, j \in 1..n : i # j => s[i] # s[j] } :
          n \in 0..MaxRows }

\* Catalog.ttable on one character: punctuation goes, whitespace and the
\* slashes become an underscore.
TTable(c) ==
  CASE c \in {" ", "/"} -> <<"_">>
    [] c \in {"-", ".", "_"} -> <<>>
    [] OTHER -> <<c>>

\* slash_and_dot_to_dash on one character.
SlashAndDotToDash(c) == IF c \in {"/", "."} THEN <<"-">> ELSE <<c>>

\* df.doi_url.apply(lambda v: "/".join(v.split("/")[-2:]))
Uid(doi_url) == Join(<<"/">>, LastTwo(Split(doi_url, "/")))

\* title.translate(ttable) + "-" + uid.translate(slash_and_dot_to_dash)
Filename(title, uid) ==
  Flatten([k \in 1..Len(title) |-> TTable(title[k])]) \o <<"-">>
    \o Flatten([k \in 1..Len(uid) |-> SlashAndDotToDash(uid[k])])

\* The row of the table made from a row of the spreadsheet.
Normalize(row) ==
  [title |-> row.title, author |-> row.author, package_name |-> row.package_name,
   doi_url |-> row.doi_url, uid |-> Uid(row.doi_url),
   filename |-> Filename(row.title, Uid(row.doi_url))]

\* The order of sort_values(by=["title", "author"], ascending=[True, True]).
RowLess(a, b) ==
  \/ StrLess(a.title, b.title)
  \/ a.title = b.title /\ StrLess(a.author, b.author)

\* Rows left in the order of the file.
Unsorted(rows) == rows

RECURSIVE SortValues(_)
\* sort_values: rows with equal keys keep their order.
SortValues(rows) ==
  IF rows = <<>> THEN <<>>
  ELSE LET n == Len(rows)
           head == SortValues(SubSeq(rows, 1, n - 1))
           x == rows[n]
           k == Cardinality({i \in 1..(n - 1) : ~RowLess(x, head[i])})
       IN  SubSeq(head, 1, k) \o <<x>> \o SubSeq(head, k + 1, n - 1)

\* Catalog.dataframe from the content of the cache file.
Dataframe(csv) == SortValues([k \in 1..Len(csv) |-> Normalize(csv[k])])

RECURSIVE SortedNames(_)
\* The names of a set, ascending.
SortedNames(names) ==
  IF names = {} THEN <<>>
  ELSE LET m == CHOOSE x \in names : \A y \in names : ~StrLess(y, x)
       IN  <<m>> \o SortedNames(names \ {m})

\* A grouping by the names that contain the key.
GroupOfContaining(df, name) ==
  LET Test(r) == \E k \in 0..(Len(r.package_name) - Len(name)) :
                   \A j \in 1..Len(name) : r.package_name[k + j] = name[j]
  IN  SelectSeq(df, Test)

\* The rows of df whose package_name is name, in the order of df.
GroupOf(df, name) ==
  LET keep == {i \in 1..Len(df) : df[i].package_name = name}
      RECURSIVE Take(_)
      Take(i) == IF i > Len(df) THEN <<>>
                 ELSE (IF i \in keep THEN <<df[i]>> ELSE <<>>) \o Take(i + 1)
  IN  Take(1)

\* Catalog.packages: {name: pkg for name, pkg in dataframe.groupby("package_name")},
\* a dict in the order of groupby, which sorts the keys.
Packages(df) ==
  LET names == SortedNames({df[i].package_name : i \in 1..Len(df)})
  IN  [k \in 1..Len(names) |-> [name |-> names[k], pkg |-> GroupOf(df, names[k])]]

\* ------------------------------------------------------------------------
\* Paths, URLs and the remote content
\* ------------------------------------------------------------------------

\* PurePath.with_suffix(suffix) on a file name: an existing suffix (from the
\* last dot, when that dot is neither first nor last) is replaced.
WithSuffix(name, suffix) ==
  LET dots == {k \in 1..Len(name) : name[k] = "."}
      last == IF dots = {} THEN 0 ELSE CHOOSE k \in dots : \A j \in dots : j <= k
  IN  IF 1 < last /\ last < Len(name)
      THEN SubSeq(name, 1, last - 1) \o suffix
      ELSE name \o suffix

\* path = (dest / textbook.filename).with_suffix(file_format.suffix)
\* A path is <<directory, file name>>, the directory a sequence of names
\* below the resolved --dest-path.
TargetPath(dest, textbook, file_format) ==
  <<dest, WithSuffix(textbook.filename, Suffix(file_format))>>

\* Catalog.content_url
ContentUrl(uid, file_format) ==
  <<ContentUrls[file_format]>> \o <<"/">> \o uid \o <<".", file_format>>

\* chunk_size of response.iter_content
ChunkSize == 8192

\* The remote content: the length in bytes of the document at a URL (the
\* documents differ in length, one is empty, one takes two chunks).
ContentLength(url) ==
  LET id == url[Len(url) - 2]
      base == CASE id = "a" -> 12288 [] id = "b" -> 4096 [] OTHER -> 0
  IN  IF url[Len(url)] = "epub" THEN base + 100 ELSE base

\* len(chunk) of the next chunk of iter_content when `left` bytes remain.
NextChunk(left) == IF left < ChunkSize THEN left ELSE ChunkSize

\* pkgname.replace(" ", "_")
PackageDir(pkgname) == Replace(pkgname, " ", "_")

\* ------------------------------------------------------------------------
\* State
\* ------------------------------------------------------------------------

VARIABLES
  cache,    \* the cache files that exist: (language, topic) -> spreadsheet content
  obj,      \* the Catalog in hand (ctx.obj): identity and memoized attributes
  dirs,     \* the directories that exist, as paths below --dest-path
  disk,     \* the files below --dest-path: path -> [run, bytes, done]
  disk0,    \* disk when the current invocation of the command started
  phase,    \* 0: no command yet, 1: the command runs, 2: it was invoked again
  cmd,      \* arguments of the download command
  pc,       \* where the command is
  exc,      \* the exception the command ended with, or NoExc
  todo,     \* package loop: the (catalog, package name) pairs still to do
  batch,    \* download_dataframe: its dataframe
  dest,     \* download_dataframe: its dest
  i,        \* download_dataframe: position of the current textbook in batch
  total,    \* download_dataframe: total
  resp,     \* download_textbook: bytes of the response not yet iterated
  size,     \* download_textbook: size
  gets,     \* the URLs given to requests.get by this invocation, in order
  outs,     \* per textbook of batch finished so far: what download_textbook did
  rets,     \* the download_dataframe calls of this invocation that returned
  prev,     \* what the first invocation ended with, once the command is invoked again
  report,   \* the download report: the records logged so far, oldest first
  reads,    \* the URLs given to pandas.read_excel by the last Catalog operation
  last,     \* the last Catalog operation: what it was called on and what came of it
  defaults_file,  \* catalog_defaults.toml: None when absent, else its key/value table
  fetching  \* the fetch_catalog call under way or just ended, step by step; else None

cvars == <<cache, obj>>

kvars == <<reads, last, defaults_file, fetching>>

dvars ==
  <<dirs, disk, disk0, phase, cmd, pc, exc, todo, batch, dest, i, total, resp, size,
    gets, outs, rets, prev, report>>

vars == <<cvars, dvars, kvars>>

\* None, and a value that is not None, where a value may be either.
None == <<>>

Some(x) == <<x>>

\* --name when absent (`if not name` holds for it).
NoName == <<>>

\* cmd before the command is invoked.
NoCommand == [component |-> "none", name |-> NoName, file_format |-> "pdf", overwrite |-> FALSE]

NoExc == [type |-> "none", context |-> "none"]

\* last before any Catalog operation.
NoCall == [op |-> "none", pair |-> <<>>, raised |-> "none", value |-> <<>>]

\* --dest-path, resolved.
Root == <<>>

\* ------------------------------------------------------------------------
\* Catalog: construction and the memoized table
\* ------------------------------------------------------------------------

\* The object __init__ leaves: no _dataframe, no _packages yet.
NewCatalog(language, topic) ==
  [language |-> language, topic |-> topic, dataframe |-> None, packages |-> None]

\* Catalog.dataframe on object o when the cache file exists: the memoized
\* table, else the table made from the cache file.
DataframeOf(o, files) ==
  IF o.dataframe # None THEN o.dataframe[1] ELSE Dataframe(files[<<o.language, o.topic>>])

\* Catalog.packages on object o when the cache file exists.
PackagesOf(o, files) ==
  IF o.packages # None THEN o.packages[1] ELSE Packages(DataframeOf(o, files))

\* The object after self.dataframe was read.
WithDataframe(o, files) == [o EXCEPT !.dataframe = Some(DataframeOf(o, files))]

\* The object after self.packages was read.
WithPackages(o, files) ==
  [o EXCEPT !.dataframe = Some(DataframeOf(o, files)),
            !.packages = Some(PackagesOf(o, files))]

\* The url argument of fetch_catalog when absent (`url or self.url`).
NoUrl == ""

\* A URL the user gives to refresh-catalog --url.
UserUrl == "https://example.com/api/endpoint/something/v11"

\* The spreadsheets a URL may hold when it is read.
Served == {s \in Snapshots : Len(s) = 1 /\ s[1].author = <<"x">>}

\* to_csv(self.cache_file): the cache file of `pair` holds csv.
Written(files, pair, csv) ==
  [q \in DOMAIN files \cup {pair} |-> IF q = pair THEN csv ELSE files[q]]

\* What a Catalog operation comes to: the cache files it leaves, the URLs it
\* read, the exception it raised, the object it leaves and the value it returned.
Result(files, urls, raised, o, value) ==
  [files |-> files, reads |-> urls, raised |-> raised, obj |-> o, value |-> value]

\* Catalog.fetch_catalog(url) on object o: the ways it can go.  Catalog.url
\* raises KeyError for a pair that has no URL.  The object stays as it is.
FetchCatalogOf(o, files, url) ==
  LET pair == <<o.language, o.topic>>
  IN  IF url = NoUrl /\ pair \notin DOMAIN CatalogUrls
      THEN {Result(files, <<>>, "KeyError", o, <<>>)}
      ELSE LET from == IF url = NoUrl THEN CatalogUrls[pair] ELSE url
           IN  {Result(Written(files, pair, csv), <<from>>, "none", o, <<>>) : csv \in Served}

\* A Catalog made by fetching the spreadsheet whatever the cache holds.
CatalogFetched(files, pair, fetch) ==
  FetchCatalogOf(NewCatalog(pair[1], pair[2]), files, NoUrl)

\* Catalog(language, topic, fetch): the ways it can go.  A raise leaves no object.
CatalogOf(files, pair, fetch) ==
  LET o == NewCatalog(pair[1], pair[2])
  IN  IF pair \notin DOMAIN files /\ fetch THEN FetchCatalogOf(o, files, NoUrl)
      ELSE {Result(files, <<>>, "none", o, <<>>)}

\* A dataframe property that keeps no table: it reads the cache file each time.
DataframeReread(o, files) ==
  LET pair == <<o.language, o.topic>>
      fetched == IF pair \in DOMAIN files THEN {Result(files, <<>>, "none", o, <<>>)}
                 ELSE FetchCatalogOf(o, files, NoUrl)
  IN  {IF f.raised = "none"
       THEN Result(f.files, f.reads, "none",
                   [o EXCEPT !.dataframe = Some(Dataframe(f.files[pair]))],
                   Dataframe(f.files[pair]))
       ELSE f : f \in fetched}

\* self.dataframe on object o: the ways it can go.
DataframeAccess(o, files) ==
  LET pair == <<o.language, o.topic>>
      fetched == IF pair \in DOMAIN files THEN {Result(files, <<>>, "none", o, <<>>)}
                 ELSE FetchCatalogOf(o, files, NoUrl)
  IN  IF o.dataframe # None
      THEN {Result(files, <<>>, "none", o, o.dataframe[1])}
      ELSE {IF f.raised = "none"
            THEN Result(f.files, f.reads, "none", WithDataframe(o, f.files),
                        Dataframe(f.files[pair]))
            ELSE f : f \in fetched}

\* self.packages on object o: the ways it can go.
PackagesAccess(o, files) ==
  IF o.packages # None
  THEN {Result(files, <<>>, "none", o, o.packages[1])}
  ELSE {IF d.raised = "none"
        THEN Result(d.files, d.reads, "none", WithPackages(d.obj, d.files), Packages(d.value))
        ELSE d : d \in DataframeAccess(o, files)}

RECURSIVE AllCatalogsFrom(_, _)
\* list(Catalog.all_catalogs()) from the k-th pair of product(Language, Topic)
\* on: the ways it can go, the value being the pairs of the catalogs yielded.
\* A KeyError of cls(language, topic) is passed over.
AllCatalogsFrom(k, files) ==
  IF k > Len(Product) THEN {Result(files, <<>>, "none", None, <<>>)}
  ELSE UNION { { Result(rest.files, c.reads \o rest.reads, rest.raised, None,
                        (IF c.raised = "none" THEN <<Product[k]>> ELSE <<>>) \o rest.value)
                   : rest \in AllCatalogsFrom(k + 1, c.files) }
               : c \in CatalogOf(files, Product[k], TRUE) }

\* The catalogs all_catalogs yields, in order (the same however it goes).
AllCatalogs(files) == (CHOOSE r \in AllCatalogsFrom(1, files) : TRUE).value

\* ------------------------------------------------------------------------
\* The download command (download_subcommand) and the download loop
\* ------------------------------------------------------------------------

\* Values of --name: matching by case only, a regular expression, no match.
Names == {<<"a">>, <<"s">>, <<".">>, <<"z">>}

\* The command lines: component, --name (None when absent), --format, --over-write.
Commands ==
  [component : {"books", "catalog", "packages", "catalogs"}, name : {NoName},
   file_format : FileFormat, overwrite : BOOLEAN]
    \cup [component : {"books", "package"}, name : Names,
          file_format : FileFormat, overwrite : BOOLEAN]
    \cup [component : {"package"}, name : {NoName},
          file_format : FileFormat, overwrite : BOOLEAN]

\* self.dataframe[self.dataframe.title.str.contains(title, case=False)]
TitleMatches(df, title) ==
  LET Test(r) == Contains(r.title, title) IN SelectSeq(df, Test)

\* self.dataframe[self.dataframe.package_name.str.contains(package, case=False)]
PackageMatches(df, package) ==
  LET Test(r) == Contains(r.package_name, package) IN SelectSeq(df, Test)

\* A download_textbook that fetches whatever is on disk.
SkipsNever(overwrite, path, files) == FALSE

\* A download_textbook that skips only with --over-write.
SkipsOverwritten(overwrite, path, files) == overwrite /\ path \in DOMAIN files

\* A download_textbook that, invoked again, takes every textbook as done.
SkipsAgain(overwrite, path, files) == phase = 2 \/ (~overwrite /\ path \in DOMAIN files)

\* `if not overwrite and path.exists()`
Skips(overwrite, path, files) == ~overwrite /\ path \in DOMAIN files

\* The file `path` once opened with "wb" by invocation `run`: empty.
Opened(files, path, run) ==
  [q \in DOMAIN files \cup {path} |->
     IF q = path THEN [run |-> run, bytes |-> 0, done |-> FALSE] ELSE files[q]]

\* An interrupt handler that leaves the file.
Kept(files, path) == files

\* path.unlink()
Unlinked(files, path) == [q \in DOMAIN files \ {path} |-> files[q]]

\* A loop that keeps the size of the last textbook only.
LastSize(sum, n) == n

\* total += self.download_textbook(...)
AddToTotal(sum, n) == sum + n

\* A logger that writes nothing.
Dropped(log, record) == log

\* logger.debug(message): the record is added at the end of the report.
Log(log, record) == Append(log, record)

\* f"Skipped {path}"
Skipped(path) == [message |-> "Skipped", path |-> path]

\* f"{response} {url}", response being of a non-success status.
NotFetched(response, url) == [message |-> "Response", response |-> response, url |-> url]

\* f"User aborted, removed partial file: {path}"
Aborted(path) == [message |-> "User aborted", path |-> path]

\* What download_textbook did for one textbook.
Outcome(path, existed, status, ret) ==
  [path |-> path, existed |-> existed, status |-> status, ret |-> ret]

\* An exception leaves the command.
Raise(type, context) ==
  /\ pc' = "end"
  /\ exc' = [type |-> type, context |-> context]

\* download_dataframe is entered (both loops start with total = 0).
BeginBatch(df, d) ==
  /\ pc' = "batch"
  /\ batch' = df
  /\ dest' = d
  /\ i' = 1
  /\ total' = 0
  /\ outs' = <<>>
  /\ exc' = NoExc

\* The package loop of the `package`, `packages` and `catalogs` components.
PackageLoop(items) ==
  /\ pc' = "loop"
  /\ todo' = items
  /\ exc' = NoExc
  /\ UNCHANGED <<batch, dest, i, total, outs>>

\* One turn of a loop of download_subcommand still to do: of the loop over the
\* catalogs ("catalog") or of a loop over package names ("package").
Item(step, catalog, pkgname) == [step |-> step, catalog |-> catalog, pkgname |-> pkgname]

\* What the `catalogs` component goes through: for catalog in all_catalogs():
\* ... for pkgname in catalog.packages: ...
CatalogsItems(files) ==
  LET cats == AllCatalogs(files)
      Of(c) == LET pk == Packages(Dataframe(files[c]))
               IN  <<Item("catalog", c, <<>>)>>
                     \o [k \in 1..Len(pk) |-> Item("package", c, pk[k].name)]
  IN  Flatten([k \in 1..Len(cats) |-> Of(cats[k])])

\* The directories path.mkdir(parents=True) makes for
\* dest_path / catalog.language.name / catalog.topic.name.
CatalogDirs(c) == {<<LanguageName(c[1])>>, <<LanguageName(c[1]), TopicName(c[2])>>}

\* download_subcommand from its first line to the first download_textbook,
\* for command line c.
Dispatch(c) ==
  /\ dirs' = dirs \cup {Root}
  /\ gets' = <<>>
  /\ rets' = <<>>
  /\ resp' = 0
  /\ size' = 0
  /\ disk0' = disk
  /\ UNCHANGED <<cache, disk, kvars, report>>
  /\ CASE c.component \in {"books", "catalog"} /\ c.name = NoName ->
            /\ obj' = WithDataframe(obj, cache)
            /\ BeginBatch(DataframeOf(obj, cache), Root)
            /\ todo' = <<>>
       [] c.component \in {"books", "catalog"} /\ c.name # NoName ->
            /\ obj' = WithDataframe(obj, cache)
            /\ todo' = <<>>
            /\ LET df == TitleMatches(DataframeOf(obj, cache), c.name)
               IN  IF df = <<>>
                   THEN Raise("Exit", "KeyError") /\ UNCHANGED <<batch, dest, i, total, outs>>
                   ELSE BeginBatch(df, Root)
       [] c.component = "package" /\ c.name = NoName ->
            /\ Raise("Exit", "none")
            /\ UNCHANGED <<obj, todo, batch, dest, i, total, outs>>
       [] c.component = "package" /\ c.name # NoName ->
            /\ UNCHANGED obj
            /\ PackageLoop(<<Item("package", <<obj.language, obj.topic>>, c.name)>>)
       [] c.component = "packages" ->
            /\ obj' = WithPackages(obj, cache)
            /\ LET pk == PackagesOf(obj, cache)
               IN  PackageLoop([k \in 1..Len(pk) |->
                     Item("package", <<obj.language, obj.topic>>, pk[k].name)])
       [] c.component = "catalogs" ->
            /\ UNCHANGED obj
            /\ PackageLoop(CatalogsItems(cache))

\* The command is invoked.
Start ==
  /\ phase = 0
  /\ \E c \in Commands :
       /\ cmd' = c
       /\ Dispatch(c)
  /\ phase' = 1
  /\ UNCHANGED prev

\* The command lines that are one download_dataframe call, without --over-write.
BatchCommands == {c \in Commands : c.component \in {"books", "catalog"} /\ ~c.overwrite}

\* Such a command is invoked.
StartBatch ==
  /\ phase = 0
  /\ \E c \in BatchCommands :
       /\ cmd' = c
       /\ Dispatch(c)
  /\ phase' = 1
  /\ UNCHANGED prev

\* The user cancelled the command.
Cancelled(e) == e.type = "KeyboardInterrupt" \/ e.context = "KeyboardInterrupt"

\* The user cancelled the command and invokes the same command line again.
Rerun ==
  /\ phase = 1
  /\ pc = "end"
  /\ Cancelled(exc)
  /\ phase' = 2
  /\ prev' = Some([exc |-> exc, outs |-> outs, disk0 |-> disk0, gets |-> gets])
  /\ UNCHANGED cmd
  /\ Dispatch(cmd)

\* One turn of `for catalog in Catalog.all_catalogs()` up to its inner loop:
\* the directory of the catalog is made.
EnterCatalog ==
  /\ pc = "loop"
  /\ todo # <<>>
  /\ Head(todo).step = "catalog"
  /\ dirs' = dirs \cup CatalogDirs(Head(todo).catalog)
  /\ todo' = Tail(todo)
  /\ UNCHANGED <<cvars, kvars, report, disk, disk0, phase, cmd, pc, exc, batch, dest, i, total,
                 resp, size, gets, outs, rets, prev>>

\* One turn of `for pkgname in package_names` (or of the inner loop of
\* `catalogs`): the directory of the package is made and download_package is
\* called.
NextPackage ==
  /\ pc = "loop"
  /\ todo # <<>>
  /\ Head(todo).step = "package"
  /\ LET item == Head(todo)
         path == Root \o <<PackageDir(item.pkgname)>>
         own == cmd.component # "catalogs"
         table == IF own THEN DataframeOf(obj, cache) ELSE Dataframe(cache[item.catalog])
         df == PackageMatches(table, item.pkgname)
     IN  /\ dirs' = dirs \cup {path}
         /\ obj' = IF own THEN WithDataframe(obj, cache) ELSE obj
         /\ todo' = Tail(todo)
         /\ IF df = <<>>
            THEN Raise("Exit", "KeyError") /\ UNCHANGED <<batch, dest, i, total, outs>>
            ELSE BeginBatch(df, path)
  /\ UNCHANGED <<cache, disk, disk0, phase, cmd, resp, size, gets, rets, prev, kvars, report>>

\* The package loop is over: download_subcommand returns.
EndLoop ==
  /\ pc = "loop"
  /\ todo = <<>>
  /\ pc' = "end"
  /\ UNCHANGED <<cvars, kvars, report, dirs, disk, disk0, phase, cmd, exc, todo, batch, dest, i, total,
                 resp, size, gets, outs, rets, prev>>

\* The textbook download_textbook is called with, its path and its URL.
Textbook == batch[i]

Path == TargetPath(dest, Textbook, cmd.file_format)

Url == ContentUrl(Textbook.uid, cmd.file_format)

\* download_textbook up to the response: the file is skipped, or requests.get
\* is called and answers with success, with a non-success status, or raises.
GetTextbook ==
  /\ pc = "batch"
  /\ i <= Len(batch)
  /\ IF Skips(cmd.overwrite, Path, disk)
     THEN /\ report' = Log(report, Skipped(Path))
          /\ outs' = Append(outs, Outcome(Path, TRUE, "none", 0))
          /\ i' = i + 1
          /\ total' = AddToTotal(total, 0)
          /\ UNCHANGED <<pc, exc, gets, resp>>
     ELSE /\ gets' = Append(gets, Url)
          /\ \E answer \in {"ok", "fail", "error"} :
               CASE answer = "ok" ->
                      /\ pc' = "open"
                      /\ resp' = ContentLength(Url)
                      /\ UNCHANGED <<exc, outs, i, total, report>>
                 [] answer = "fail" ->
                      /\ report' = Log(report, NotFetched("fail", Url))
                      /\ outs' = Append(outs, Outcome(Path, Path \in DOMAIN disk, "fail", 0))
                      /\ i' = i + 1
                      /\ total' = AddToTotal(total, 0)
                      /\ UNCHANGED <<pc, exc, resp>>
                 [] answer = "error" ->
                      /\ Raise("ConnectionError", "none")
                      /\ UNCHANGED <<outs, i, resp, total, report>>
  /\ UNCHANGED <<cvars, kvars, dirs, disk, disk0, phase, cmd, todo, batch, dest, size, rets, prev>>

\* size = 0 and path.open("wb"): the file is created, or truncated.
OpenFile ==
  /\ pc = "open"
  /\ IF dest \in dirs
     THEN /\ disk' = Opened(disk, Path, phase)
          /\ size' = 0
          /\ pc' = "stream"
          /\ UNCHANGED exc
     ELSE /\ Raise("FileNotFoundError", "none")
          /\ UNCHANGED <<disk, size>>
  /\ UNCHANGED <<cvars, kvars, report, dirs, disk0, phase, cmd, todo, batch, dest, i, total, resp, gets,
                 outs, rets, prev>>

\* One turn of `for chunk in response.iter_content(chunk_size=8192)`: the chunk
\* is counted and written, or the connection drops and iter_content raises.
WriteChunk ==
  /\ pc = "stream"
  /\ resp > 0
  /\ \/ LET n == NextChunk(resp)
        IN  /\ size' = size + n
            /\ disk' = [disk EXCEPT ![Path].bytes = @ + n]
            /\ resp' = resp - n
            /\ UNCHANGED <<pc, exc>>
     \/ /\ Raise("ConnectionError", "none")
        /\ UNCHANGED <<size, disk, resp>>
  /\ UNCHANGED <<cvars, kvars, report, dirs, disk0, phase, cmd, todo, batch, dest, i, total, gets, outs,
                 rets, prev>>

\* The response is exhausted: the file is closed and download_textbook returns
\* size, which the loop adds to total.
ReturnSize ==
  /\ pc = "stream"
  /\ resp = 0
  /\ disk' = [disk EXCEPT ![Path].done = TRUE]
  /\ outs' = Append(outs, Outcome(Path, Path \in DOMAIN disk0, "ok", size))
  /\ total' = AddToTotal(total, size)
  /\ i' = i + 1
  /\ pc' = "batch"
  /\ UNCHANGED <<cvars, kvars, report, dirs, disk0, phase, cmd, exc, todo, batch, dest, resp, size, gets,
                 rets, prev>>

\* The loop of download_dataframe is over: it returns total.
EndBatch ==
  /\ pc = "batch"
  /\ i > Len(batch)
  /\ rets' = Append(rets, [dest |-> dest, animated |-> Len(batch) > 1, total |-> total])
  /\ pc' = IF cmd.component \in {"books", "catalog"} THEN "end" ELSE "loop"
  /\ UNCHANGED <<cvars, kvars, report, dirs, disk, disk0, phase, cmd, exc, todo, batch, dest, i, total,
                 resp, size, gets, outs, prev>>

\* The user interrupts the command (KeyboardInterrupt).  Inside the try block
\* of download_textbook the handler unlinks the path and raises again; the
\* unlink itself raises when the file was not yet created.
Interrupt ==
  /\ pc \in {"loop", "batch", "open", "stream"}
  /\ CASE pc \in {"loop", "batch"} ->
            /\ Raise("KeyboardInterrupt", "none")
            /\ UNCHANGED <<disk, report>>
       [] pc = "open" /\ Path \in DOMAIN disk ->
            /\ disk' = Unlinked(disk, Path)
            /\ report' = Log(report, Aborted(Path))
            /\ Raise("KeyboardInterrupt", "none")
       [] pc = "open" /\ Path \notin DOMAIN disk ->
            /\ Raise("FileNotFoundError", "KeyboardInterrupt")
            /\ UNCHANGED <<disk, report>>
       [] pc = "stream" ->
            /\ disk' = Unlinked(disk, Path)
            /\ report' = Log(report, Aborted(Path))
            /\ Raise("KeyboardInterrupt", "none")
  /\ UNCHANGED <<cvars, kvars, dirs, disk0, phase, cmd, todo, batch, dest, i, total, resp, size,
                 gets, outs, rets, prev>>

\* ------------------------------------------------------------------------
\* The download command on a cached catalog
\* ------------------------------------------------------------------------

\* The spreadsheets whose rows are already in the order of the table (the
\* order of the rows in the file does not change the table).
Ordered == {s \in Snapshots : Dataframe(s) = [k \in 1..Len(s) |-> Normalize(s[k])]}

\* The cache files of the other two catalogs.
OtherCache(pair) ==
  LET one == CHOOSE s \in Ordered : Len(s) = 1 /\ s[1].package_name = <<"S">>
      two == CHOOSE s \in Ordered : Len(s) = 1 /\ s[1].package_name = <<"T">>
  IN  IF pair = <<"de", "all">> THEN one ELSE two

\* A file left below --dest-path by an earlier use of the program.
OldFile == [run |-> 0, bytes |-> ChunkSize, done |-> TRUE]

\* The file names the table of a spreadsheet gives its textbooks.
Filenames(csv) == {Dataframe(csv)[k].filename : k \in 1..Len(csv)}

\* No download command has been invoked.
Idle ==
  /\ disk0 = disk
  /\ phase = 0
  /\ cmd = NoCommand
  /\ pc = "idle"
  /\ exc = NoExc
  /\ todo = <<>>
  /\ batch = <<>>
  /\ dest = Root
  /\ i = 1
  /\ total = 0
  /\ resp = 0
  /\ size = 0
  /\ gets = <<>>
  /\ outs = <<>>
  /\ rets = <<>>
  /\ prev = None
  /\ report = <<>>

Init ==
  /\ \E csv \in Ordered :
       /\ cache = [pair \in DOMAIN CatalogUrls |->
                     IF pair = <<"en", "all">> THEN csv ELSE OtherCache(pair)]
       /\ \E old \in SUBSET Filenames(csv) :
            disk = [path \in {<<Root, WithSuffix(fn, Suffix(f))>> : fn \in old, f \in FileFormat}
                      |-> OldFile]
  /\ dirs = {path[1] : path \in DOMAIN disk}
  /\ obj = NewCatalog("en", "all")
  /\ Idle
  /\ reads = <<>>
  /\ last = NoCall
  /\ defaults_file = None
  /\ fetching = None

Next ==
  \/ Start
  \/ EnterCatalog
  \/ NextPackage
  \/ EndLoop
  \/ GetTextbook
  \/ OpenFile
  \/ WriteChunk
  \/ ReturnSize
  \/ EndBatch
  \/ Interrupt

Spec == Init /\ [][Next]_vars

\* ------------------------------------------------------------------------
\* Catalog.download called from a program, not from the command
\* ------------------------------------------------------------------------

\* catalog.download(dest, file_format, overwrite) with dest the path that the
\* command is given as --dest-path; nothing has made dest.
CallDownload ==
  /\ phase = 0
  /\ \E f \in FileFormat, o \in BOOLEAN :
       cmd' = [component |-> "catalog", name |-> NoName, file_format |-> f, overwrite |-> o]
  /\ phase' = 1
  /\ obj' = WithDataframe(obj, cache)
  /\ BeginBatch(DataframeOf(obj, cache), Root)
  /\ disk0' = disk
  /\ gets' = <<>>
  /\ rets' = <<>>
  /\ resp' = 0
  /\ size' = 0
  /\ UNCHANGED <<cache, kvars, dirs, disk, todo, prev, report>>

NextLibrary ==
  \/ CallDownload
  \/ GetTextbook
  \/ OpenFile
  \/ WriteChunk
  \/ ReturnSize
  \/ EndBatch
  \/ Interrupt

SpecLibrary == Init /\ [][NextLibrary]_vars

\* ------------------------------------------------------------------------
\* The two loops of download_dataframe, each run to its end
\* ------------------------------------------------------------------------

\* What a loop works on: the files, the requests made, total and the report.
LoopState(files, urls, sum, log) == [disk |-> files, gets |-> urls, total |-> sum, report |-> log]

\* download_textbook(textbook, dest, file_format, overwrite) from state s, when
\* it returns: the response to its request, if it makes one, is `answer`.
\* call holds dest, file_format and overwrite.
DownloadTextbookOf(s, textbook, call, answer) ==
  LET path == TargetPath(call.dest, textbook, call.file_format)
      url == ContentUrl(textbook.uid, call.file_format)
      asked == Append(s.gets, url)
  IN  IF Skips(call.overwrite, path, s.disk)
      THEN LoopState(s.disk, s.gets, AddToTotal(s.total, 0), Log(s.report, Skipped(path)))
      ELSE IF answer = "fail"
      THEN LoopState(s.disk, asked, AddToTotal(s.total, 0),
                     Log(s.report, NotFetched("fail", url)))
      ELSE LoopState([q \in DOMAIN s.disk \cup {path} |->
                        IF q = path
                        THEN [run |-> 1, bytes |-> ContentLength(url), done |-> TRUE]
                        ELSE s.disk[q]],
                     asked, AddToTotal(s.total, ContentLength(url)), s.report)

RECURSIVE PlainLoop(_, _, _)
\* `for textbook in self.textbooks(dataframe): total += ...` from the k-th row.
PlainLoop(call, s, k) ==
  IF k > Len(call.dataframe) THEN s
  ELSE PlainLoop(call, DownloadTextbookOf(s, call.dataframe[k], call, call.answers[k]), k + 1)

\* typer.progressbar(self.textbooks(dataframe), length=len(dataframe), ...,
\* item_show_func=show_title)
ProgressBar(iterable, length) ==
  [items |-> iterable, length |-> length, pos |-> 0, shown |-> <<>>]

\* show_title(item): item.title[:20]
ShowTitle(item) ==
  SubSeq(item.title, 1, IF Len(item.title) < 20 THEN Len(item.title) ELSE 20)

\* A progress bar that stops one item before its length.
IteratedShort(bar) == SubSeq(bar.items, 1, bar.length - 1)

\* What `for textbook in workitems` goes through: the items of the iterable.
Iterated(bar) == bar.items

RECURSIVE AnimatedLoop(_, _, _, _)
\* `for textbook in workitems: total += ...` from the k-th item: the bar moves
\* on and shows the title of the item.
AnimatedLoop(call, s, bar, k) ==
  LET items == Iterated(bar)
  IN  IF k > Len(items) THEN [state |-> s, bar |-> bar]
      ELSE AnimatedLoop(call,
                        DownloadTextbookOf(s, items[k], call, call.answers[k]),
                        [bar EXCEPT !.pos = @ + 1, !.shown = ShowTitle(items[k])],
                        k + 1)

\* obj.download_dataframe(dest, file_format, overwrite, dataframe, animated),
\* run to its end with no exception, the requests answered by `answers`: the
\* loop taken is the animated one when `len(dataframe) > 1 or animated`.  The
\* outcome of either loop from the same state is kept in `last`.
DownloadDataframe ==
  /\ phase = 0
  /\ \E f \in FileFormat, o \in BOOLEAN, animated \in BOOLEAN,
        n \in 0..Len(DataframeOf(obj, cache)) :
       LET df == SubSeq(DataframeOf(obj, cache), 1, n)
       IN  \E answers \in [1..Len(df) -> {"ok", "fail"}] :
             LET call == [dataframe |-> df, dest |-> Root, file_format |-> f,
                          overwrite |-> o, answers |-> answers]
                 s == LoopState(disk, <<>>, 0, report)
                 plain == PlainLoop(call, s, 1)
                 anim == AnimatedLoop(call, s, ProgressBar(df, Len(df)), 1)
                 taken == IF Len(df) > 1 \/ animated THEN anim.state ELSE plain
             IN  /\ cmd' = [component |-> "catalog", name |-> NoName, file_format |-> f,
                            overwrite |-> o]
                 /\ batch' = df
                 /\ disk' = taken.disk
                 /\ gets' = taken.gets
                 /\ total' = taken.total
                 /\ report' = taken.report
                 /\ rets' = <<[dest |-> Root, animated |-> Len(df) > 1 \/ animated,
                               total |-> taken.total]>>
                 /\ last' = [op |-> "download_dataframe", pair |-> <<obj.language, obj.topic>>,
                             raised |-> "none", value |-> taken.total, call |-> call,
                             plain |-> plain, animated |-> anim.state, bar |-> anim.bar]
  /\ obj' = WithDataframe(obj, cache)
  /\ phase' = 1
  /\ pc' = "end"
  /\ disk0' = disk
  /\ UNCHANGED <<cache, dirs, exc, todo, dest, i, resp, size, outs, prev, reads,
                 defaults_file, fetching>>

NextLoops == DownloadDataframe

SpecLoops == Init /\ [][NextLoops]_vars

\* ------------------------------------------------------------------------
\* A cancelled download, resumed
\* ------------------------------------------------------------------------

NextResume ==
  \/ StartBatch
  \/ Rerun
  \/ GetTextbook
  \/ OpenFile
  \/ WriteChunk
  \/ ReturnSize
  \/ EndBatch
  \/ Interrupt

SpecResume == Init /\ [][NextResume]_vars

\* ------------------------------------------------------------------------
\* A download that ended, invoked again
\* ------------------------------------------------------------------------

\* The command has ended, however it did, and the same command line is invoked
\* again.
RunAgain ==
  /\ phase = 1
  /\ pc = "end"
  /\ phase' = 2
  /\ prev' = Some([exc |-> exc, outs |-> outs, disk0 |-> disk0, gets |-> gets])
  /\ UNCHANGED cmd
  /\ Dispatch(cmd)

NextRetry ==
  \/ StartBatch
  \/ RunAgain
  \/ GetTextbook
  \/ OpenFile
  \/ WriteChunk
  \/ ReturnSize
  \/ EndBatch
  \/ Interrupt

SpecRetry == Init /\ [][NextRetry]_vars

\* ------------------------------------------------------------------------
\* Properties of the download loop
\* ------------------------------------------------------------------------

\* The bytes download_textbook returned for the textbooks of outcomes `o`
\* whose fetch succeeded.
RECURSIVE SumOk(_)
SumOk(o) ==
  IF o = <<>> THEN 0
  ELSE (IF Head(o).status = "ok" THEN Head(o).ret ELSE 0) + SumOk(Tail(o))

\* The outcomes of `o` with the given status.
WithStatus(o, status) == LET Test(x) == x.status = status IN SelectSeq(o, Test)

\* C1: Skip-on-existing.  Whenever download_textbook is called without
\* overwrite for a textbook whose target path (dest / filename with the
\* suffix of the format) exists, it returns 0 (the outcome records 0 and total
\* stays), no request is made, and no file changes.
C1_SkipOnExisting ==
  [][(GetTextbook /\ ~cmd.overwrite /\ Path \in DOMAIN disk)
       => /\ outs' = Append(outs, Outcome(Path, TRUE, "none", 0))
          /\ total' = total
          /\ gets' = gets
          /\ disk' = disk
          /\ exc' = exc]_vars

\* A command without --over-write has skipped a file that was there before it
\* started and has gone on to fetch another textbook.
C1_Witness ==
  /\ ~cmd.overwrite
  /\ \E k \in 1..Len(outs) :
       /\ outs[k].status = "none"
       /\ outs[k].path \in DOMAIN disk0
       /\ disk[outs[k].path] = OldFile
  /\ gets # <<>>

\* The target paths of the textbooks of the batch, in order.
BatchPaths == [k \in 1..Len(batch) |-> TargetPath(dest, batch[k], cmd.file_format)]

DistinctPaths ==
  \A j, k \in 1..Len(batch) : j # k => BatchPaths[j] # BatchPaths[k]

\* The second run of a batch without overwrite, whose first run the user
\* cancelled, has returned, and no fetch of either run was answered with a
\* non-success status.
Resumed ==
  /\ phase = 2
  /\ pc = "end"
  /\ exc = NoExc
  /\ ~cmd.overwrite
  /\ Cancelled(prev[1].exc)
  /\ DistinctPaths
  /\ WithStatus(prev[1].outs, "fail") = <<>>
  /\ WithStatus(outs, "fail") = <<>>

\* N: the textbooks the first run wrote completely.
WrittenBefore == Len(WithStatus(prev[1].outs, "ok"))

\* The textbooks of the batch whose file was there before the first run.
ThereBefore == Cardinality({k \in 1..Len(batch) : BatchPaths[k] \in DOMAIN prev[1].disk0})

AllPresent ==
  \A k \in 1..Len(batch) : BatchPaths[k] \in DOMAIN disk /\ disk[BatchPaths[k]].done

\* C2: Resumability.  For a table of M textbooks with pairwise distinct target
\* paths whose fetches all succeed, when the first run (no overwrite) was
\* cancelled after N textbooks were written completely, the second run of the
\* same batch ends with all M files present and makes exactly M - N - K
\* requests, K being the number of textbooks whose file was already in the
\* destination before the first run (M - N when there was none).
C2_Resumability ==
  Resumed => AllPresent /\ Len(gets) = Len(batch) - WrittenBefore - ThereBefore

\* The second run fetched one textbook, after a first run that had written one
\* and skipped one that was there from the start.
C2_Witness ==
  /\ Resumed
  /\ WrittenBefore = 1
  /\ ThereBefore = 1
  /\ Len(gets) = 1
  /\ Len(batch) = 3

\* C2 as stated: the second run makes exactly M - N requests.
C2_Original ==
  Resumed => AllPresent /\ Len(gets) = Len(batch) - WrittenBefore

\* C3: Batch fault tolerance.  In download_dataframe a non-success response
\* does not stop the batch (the loop goes on to the next textbook with no
\* exception, nothing written and total unchanged); skipped and failed
\* textbooks count 0; when download_dataframe returns, every textbook of the
\* table has been attempted and the value returned is the sum of the bytes
\* written for the textbooks whose fetch succeeded.
C3_BatchFaultTolerance ==
  /\ [](/\ Len(outs) = i - 1
        /\ total = SumOk(outs)
        /\ \A k \in 1..Len(outs) :
             IF outs[k].status = "ok"
             THEN outs[k].ret = ContentLength(ContentUrl(batch[k].uid, cmd.file_format))
             ELSE outs[k].ret = 0)
  /\ [][(GetTextbook /\ Len(outs') > Len(outs) /\ outs'[Len(outs')].status = "fail")
          => /\ pc' = "batch"
             /\ i' = i + 1
             /\ exc' = NoExc
             /\ total' = total
             /\ disk' = disk]_vars
  /\ [][EndBatch
          => /\ Len(outs) = Len(batch)
             /\ rets'[Len(rets')].total = SumOk(outs)]_vars

\* download_dataframe has returned the bytes of the first and the third
\* textbook, the second having been answered with a non-success status.
C3_Witness ==
  /\ pc = "end"
  /\ exc = NoExc
  /\ Len(outs) = 3
  /\ outs[1].status = "ok"
  /\ outs[2].status = "fail"
  /\ outs[3].status = "ok"
  /\ rets # <<>>
  /\ rets[Len(rets)].total = outs[1].ret + outs[3].ret
  /\ outs[1].ret > 0
  /\ outs[3].ret > 0

\* C4: Cancellation cleanup.  When the user interrupts download_textbook while
\* the response is streamed to the target path, the file is deleted, the
\* command ends with KeyboardInterrupt without having gone on in the batch, and
\* once it has ended no request is made and no file is written.
C4_CancellationCleanup ==
  /\ [][(Interrupt /\ pc = "stream")
          => /\ Path \notin DOMAIN disk'
             /\ pc' = "end"
             /\ exc' = [type |-> "KeyboardInterrupt", context |-> "none"]
             /\ i' = i
             /\ gets' = gets]_vars
  /\ [][pc = "end" => gets' = gets /\ disk' = disk]_vars

\* The command was interrupted after the first chunk of a textbook that is not
\* the last of its batch: its file is gone.
C4_Witness ==
  /\ pc = "end"
  /\ exc.type = "KeyboardInterrupt"
  /\ size = ChunkSize
  /\ resp > 0
  /\ i < Len(batch)
  /\ Path \notin DOMAIN disk

\* a.casefold() in b.casefold()
SubstringNoCase(a, b) ==
  \E k \in 0..(Len(b) - Len(a)) : \A j \in 1..Len(a) : Casefold(a[j]) = Casefold(b[k + j])

\* The command has called download_title (resp. download_package) with a name
\* that no title (resp. no package name) of the table contains, whatever the
\* case of the letters.
NothingContainsName ==
  LET df == DataframeOf(obj, cache)
  IN  /\ phase = 1
      /\ cmd.name # NoName
      /\ \/ /\ cmd.component = "books"
            /\ \A k \in 1..Len(df) : ~SubstringNoCase(cmd.name, df[k].title)
         \/ /\ cmd.component = "package"
            /\ todo = <<>>
            /\ \A k \in 1..Len(df) : ~SubstringNoCase(cmd.name, df[k].package_name)

\* C5: Empty-match rejection.  download_title and download_package, called
\* with a name that is a substring of no title (resp. package name) of the
\* table, case ignored, raise KeyError, make no request and write no file.
C5_EmptyMatchRejection ==
  NothingContainsName
    => /\ pc = "end"
       /\ exc = [type |-> "Exit", context |-> "KeyError"]
       /\ gets = <<>>
       /\ disk = disk0

\* C8: All-catalogs layout.  Every file `download catalogs` writes for a
\* textbook of the catalog (language, topic) is below
\* dest_path/<language name>/<topic name>.
C8_AllCatalogsLayout ==
  cmd.component = "catalogs"
    => \A path \in DOMAIN disk :
         disk[path].run >= 1
           => \E c \in DOMAIN cache :
                /\ Len(path[1]) >= 2
                /\ path[1][1] = LanguageName(c[1])
                /\ path[1][2] = TopicName(c[2])
                /\ \E k \in 1..Len(cache[c]) :
                     WithSuffix(Dataframe(cache[c])[k].filename, Suffix(cmd.file_format))
                       = path[2]

\* ------------------------------------------------------------------------
\* The Catalog class used as a library
\* ------------------------------------------------------------------------

Call(op, pair, r) == [op |-> op, pair |-> pair, raised |-> r.raised, value |-> r.value]

Pair(o) == <<o.language, o.topic>>

\* obj = Catalog(language, topic, fetch)
NewObject ==
  /\ \E k \in 1..Len(Product), fetch \in BOOLEAN :
       \E r \in CatalogOf(cache, Product[k], fetch) :
         /\ cache' = r.files
         /\ reads' = r.reads
         /\ obj' = IF r.raised = "none" THEN r.obj ELSE obj
         /\ last' = Call("Catalog", Product[k], r)
  /\ UNCHANGED <<dvars, defaults_file, fetching>>

\* obj.fetch_catalog(url)
FetchCatalog ==
  /\ \E url \in {NoUrl, UserUrl} :
       \E r \in FetchCatalogOf(obj, cache, url) :
         /\ cache' = r.files
         /\ reads' = r.reads
         /\ last' = Call("fetch_catalog", Pair(obj), r)
  /\ UNCHANGED <<obj, dvars, defaults_file, fetching>>

\* obj.dataframe
ReadDataframe ==
  /\ \E r \in DataframeAccess(obj, cache) :
       /\ cache' = r.files
       /\ reads' = r.reads
       /\ obj' = r.obj
       /\ last' = Call("dataframe", Pair(obj), r)
  /\ UNCHANGED <<dvars, defaults_file, fetching>>

\* obj.packages
ReadPackages ==
  /\ \E r \in PackagesAccess(obj, cache) :
       /\ cache' = r.files
       /\ reads' = r.reads
       /\ obj' = r.obj
       /\ last' = Call("packages", Pair(obj), r)
  /\ UNCHANGED <<dvars, defaults_file, fetching>>

\* obj.cache_file.unlink()
CleanCatalog ==
  /\ IF Pair(obj) \in DOMAIN cache
     THEN /\ cache' = [q \in DOMAIN cache \ {Pair(obj)} |-> cache[q]]
          /\ last' = [op |-> "unlink", pair |-> Pair(obj), raised |-> "none", value |-> <<>>]
     ELSE /\ UNCHANGED cache
          /\ last' = [op |-> "unlink", pair |-> Pair(obj), raised |-> "FileNotFoundError",
                      value |-> <<>>]
  /\ reads' = <<>>
  /\ UNCHANGED <<obj, dvars, defaults_file, fetching>>

\* list(Catalog.all_catalogs())
ListAllCatalogs ==
  /\ \E r \in AllCatalogsFrom(1, cache) :
       /\ cache' = r.files
       /\ reads' = r.reads
       /\ last' = Call("all_catalogs", <<>>, r)
  /\ UNCHANGED <<obj, dvars, defaults_file, fetching>>

\* A fresh installation: no cache file; Catalog(fetch=False) is in hand.
InitCatalog ==
  /\ cache = [q \in {} |-> <<>>]
  /\ disk = [q \in {} |-> OldFile]
  /\ dirs = {}
  /\ obj = NewCatalog("en", "all")
  /\ Idle
  /\ reads = <<>>
  /\ last = NoCall
  /\ defaults_file = None
  /\ fetching = None

NextCatalog ==
  \/ NewObject
  \/ FetchCatalog
  \/ ReadDataframe
  \/ ReadPackages
  \/ CleanCatalog
  \/ ListAllCatalogs

SpecCatalog == InitCatalog /\ [][NextCatalog]_vars

\* ------------------------------------------------------------------------
\* Catalog.__eq__
\* ------------------------------------------------------------------------

\* Catalog.name: f"{self.language}-{self.topic}"
Name(o) == <<o.language, "-", o.topic>>

\* An object of class Catalog, as the right-hand side of ==.
Instance(o) == [class |-> "Catalog", self |-> o]

\* Objects of other classes: paths, which have a `name` (the last component),
\* and an integer, which has none.
Foreign ==
  {[class |-> "PurePath", name |-> <<Language[j], "-", Topic[k]>>] :
     j \in 1..Len(Language), k \in 1..Len(Topic)}
    \cup {[class |-> "PurePath", name |-> <<"books">>], [class |-> "int"]}

\* The Catalog objects a program can hold when the cache files are `files`:
\* made without fetching, with the table not read or read.
Instances(files) ==
  {Instance(NewCatalog(Product[k][1], Product[k][2])) : k \in 1..Len(Product)}
    \cup {Instance(WithDataframe(NewCatalog(q[1], q[2]), files)) : q \in DOMAIN files}

\* other.name: None when the attribute lookup raises AttributeError.
NameOf(other) ==
  IF other.class = "Catalog" THEN Some(Name(other.self))
  ELSE IF "name" \in DOMAIN other THEN Some(other.name)
  ELSE None

\* Catalog.__eq__(self, other)
Eq(self, other) ==
  LET name == NameOf(other)
  IN  IF name = None THEN FALSE ELSE Name(self) = name[1]

\* obj == other
Compare ==
  /\ \E other \in Instances(cache) \cup Foreign :
       last' = [op |-> "eq", pair |-> Pair(obj), raised |-> "none",
                value |-> Eq(obj, other), other |-> other]
  /\ reads' = <<>>
  /\ UNCHANGED <<cvars, dvars, defaults_file, fetching>>

NextEquality ==
  \/ NewObject
  \/ FetchCatalog
  \/ ReadDataframe
  \/ CleanCatalog
  \/ Compare

SpecEquality == InitCatalog /\ [][NextEquality]_vars

\* ------------------------------------------------------------------------
\* The persisted defaults
\* ------------------------------------------------------------------------

\* A dict with no key.
EmptyDict == [k \in {} |-> ""]

\* Catalog.defaults: the table of the defaults file, {} when the file is
\* absent (FileNotFoundError).
Defaults(file) == IF file = None THEN EmptyDict ELSE file[1]

\* dict.get(key, default) of a dict that has no key.
GetOfEmpty(contents, key, default) == default

\* dict.get(key, default)
Get(contents, key, default) == IF key \in DOMAIN contents THEN contents[key] ELSE default

\* The dict replaced by `updated`.
Replaced(contents, updated) == updated

\* contents.update(updated): the dict after it.
Update(contents, updated) ==
  [k \in DOMAIN contents \cup DOMAIN updated |->
     IF k \in DOMAIN updated THEN updated[k] ELSE contents[k]]

\* The language and topic of Catalog() when neither is given.
DefaultPair(file) ==
  <<Get(Defaults(file), "language", "en"), Get(Defaults(file), "topic", "all")>>

\* The defaults files a user can have: none, or a table with any of the keys
\* language and topic, and possibly a key of the user's own.
DefaultsFiles ==
  {None} \cup
  {Some(d) : d \in UNION {[keys -> {"en", "de", "all", "med", "dark"}] :
                            keys \in SUBSET {"language", "topic", "theme"}}}

WellFormed(file) ==
  LET d == Defaults(file)
  IN  /\ "language" \in DOMAIN d => d["language"] \in {Language[k] : k \in 1..Len(Language)}
      /\ "topic" \in DOMAIN d => d["topic"] \in {Topic[k] : k \in 1..Len(Topic)}
      /\ "theme" \in DOMAIN d => d["theme"] = "dark"

\* obj.save_defaults()
SaveDefaults ==
  /\ defaults_file' =
       Some(Update(Defaults(defaults_file),
                   [k \in {"language", "topic"} |->
                      IF k = "language" THEN obj.language ELSE obj.topic]))
  /\ last' = [op |-> "save_defaults", pair |-> Pair(obj), raised |-> "none", value |-> <<>>,
              before |-> defaults_file]
  /\ reads' = <<>>
  /\ UNCHANGED <<cvars, dvars, fetching>>

\* obj = Catalog(fetch=fetch): language and topic left to the defaults.
NewDefaultObject ==
  /\ \E fetch \in BOOLEAN :
       \E r \in CatalogOf(cache, DefaultPair(defaults_file), fetch) :
         /\ cache' = r.files
         /\ reads' = r.reads
         /\ obj' = IF r.raised = "none" THEN r.obj ELSE obj
         /\ last' = Call("Catalog()", DefaultPair(defaults_file), r)
  /\ UNCHANGED <<dvars, defaults_file, fetching>>

\* obj.is_default: Catalog(fetch=False) == self
IsDefault ==
  /\ \E r \in CatalogOf(cache, DefaultPair(defaults_file), FALSE) :
       last' = [op |-> "is_default", pair |-> Pair(obj), raised |-> "none",
                value |-> Eq(obj, Instance(r.obj))]
  /\ reads' = <<>>
  /\ UNCHANGED <<cvars, dvars, defaults_file, fetching>>

\* obj.download(dest, FileFormat.pdf, False) when the cache file is there, once
\* the defaults were saved.
DownloadCached ==
  /\ last.op = "save_defaults"
  /\ Pair(obj) \in DOMAIN cache
  /\ CallDownload
  /\ cmd'.file_format = "pdf"
  /\ ~cmd'.overwrite

InitDefaults ==
  /\ cache = [q \in {} |-> <<>>]
  /\ disk = [q \in {} |-> OldFile]
  /\ dirs = {Root}
  /\ obj = NewCatalog("en", "all")
  /\ Idle
  /\ reads = <<>>
  /\ last = NoCall
  /\ defaults_file \in {file \in DefaultsFiles : WellFormed(file)}
  /\ fetching = None

\* A program that works on catalogs and defaults, then downloads a catalog, then
\* asks for the default catalog again.
NextDefaults ==
  \/ pc = "idle" /\ NewObject
  \/ pc \in {"idle", "end"} /\ NewDefaultObject
  \/ pc = "idle" /\ SaveDefaults
  \/ pc \in {"idle", "end"} /\ IsDefault
  \/ pc = "idle" /\ FetchCatalog
  \/ pc = "idle" /\ CleanCatalog
  \/ pc = "idle" /\ ListAllCatalogs
  \/ DownloadCached
  \/ GetTextbook
  \/ OpenFile
  \/ WriteChunk
  \/ ReturnSize
  \/ EndBatch
  \/ Interrupt

SpecDefaults == InitDefaults /\ [][NextDefaults]_vars

\* ------------------------------------------------------------------------
\* Catalog(language, topic) with either argument left out
\* ------------------------------------------------------------------------

\* A constructor that takes the defaults unless both arguments are given.
ResolveBoth(language, topic, file) ==
  IF language # None /\ topic # None THEN <<language[1], topic[1]>> ELSE DefaultPair(file)

\* self.language and self.topic of Catalog(language, topic), None being an
\* argument left out: `language or Language(self.defaults.get("language", "en"))`,
\* `topic or Topic(self.defaults.get("topic", "all"))`.
Resolve(language, topic, file) ==
  <<IF language # None THEN language[1] ELSE Get(Defaults(file), "language", "en"),
    IF topic # None THEN topic[1] ELSE Get(Defaults(file), "topic", "all")>>

\* The values of an optional argument taken from the sequence `members`.
Optional(members) == {None} \cup {Some(members[k]) : k \in 1..Len(members)}

\* obj = Catalog(language, topic, fetch), each of language and topic given or not.
NewCatalogObject ==
  /\ \E language \in Optional(Language), topic \in Optional(Topic), fetch \in BOOLEAN :
       \E r \in CatalogOf(cache, Resolve(language, topic, defaults_file), fetch) :
         /\ cache' = r.files
         /\ reads' = r.reads
         /\ obj' = IF r.raised = "none" THEN r.obj ELSE obj
         /\ last' = [op |-> "Catalog(language, topic)", pair |-> <<>>, raised |-> r.raised,
                     value |-> <<>>, language |-> language, topic |-> topic]
  /\ UNCHANGED <<dvars, defaults_file, fetching>>

NextIdentity ==
  \/ NewCatalogObject
  \/ SaveDefaults
  \/ CleanCatalog

SpecIdentity == InitDefaults /\ [][NextIdentity]_vars

\* ------------------------------------------------------------------------
\* fetch_catalog, step by step
\* ------------------------------------------------------------------------

\* The content of the cache file of `pair`, None when there is no file.
CacheFile(files, pair) == IF pair \in DOMAIN files THEN Some(files[pair]) ELSE None

\* The spreadsheets read_excel may return in this part: at least one row.
Spreadsheets == Snapshots \ {<<>>}

\* No fetch_catalog is under way.
Settled == IF fetching = None THEN TRUE ELSE fetching[1].at \in {"done", "failed"}

\* obj.fetch_catalog(url) up to the value of
\* pandas.read_excel(url or self.url).dropna(axis=1): nothing is written yet.
ReadExcel ==
  /\ Settled
  /\ \E url \in {NoUrl, UserUrl} :
       IF url = NoUrl /\ Pair(obj) \notin DOMAIN CatalogUrls
       THEN /\ fetching' = Some([pair |-> Pair(obj), old |-> CacheFile(cache, Pair(obj)),
                                 new |-> <<>>, at |-> "failed"])
            /\ reads' = <<>>
            /\ last' = [op |-> "fetch_catalog", pair |-> Pair(obj), raised |-> "KeyError",
                        value |-> <<>>]
       ELSE /\ \E csv \in Spreadsheets :
                 fetching' = Some([pair |-> Pair(obj), old |-> CacheFile(cache, Pair(obj)),
                                   new |-> csv, at |-> "read"])
            /\ reads' = <<IF url = NoUrl THEN CatalogUrls[Pair(obj)] ELSE url>>
            /\ last' = NoCall
  /\ UNCHANGED <<cvars, dvars, defaults_file>>

\* to_csv(self.cache_file) opens the file for writing: whatever it held is gone.
OpenCache ==
  /\ fetching # None
  /\ fetching[1].at = "read"
  /\ cache' = Written(cache, fetching[1].pair, <<>>)
  /\ fetching' = Some([fetching[1] EXCEPT !.at = "write"])
  /\ UNCHANGED <<obj, dvars, reads, last, defaults_file>>

\* to_csv writes the next row.
WriteRow ==
  /\ fetching # None
  /\ fetching[1].at = "write"
  /\ LET f == fetching[1]
         n == Len(cache[f.pair])
     IN  /\ n < Len(f.new)
         /\ cache' = Written(cache, f.pair, Append(cache[f.pair], f.new[n + 1]))
  /\ UNCHANGED <<obj, dvars, reads, last, defaults_file, fetching>>

\* to_csv closes the file and fetch_catalog returns.
CloseCache ==
  /\ fetching # None
  /\ fetching[1].at = "write"
  /\ cache[fetching[1].pair] = fetching[1].new
  /\ fetching' = Some([fetching[1] EXCEPT !.at = "done"])
  /\ last' = [op |-> "fetch_catalog", pair |-> fetching[1].pair, raised |-> "none",
              value |-> <<>>]
  /\ UNCHANGED <<cvars, dvars, reads, defaults_file>>

\* The fetch ends where it is: KeyboardInterrupt, or an OSError of a write.
\* fetch_catalog has no handler; the cache file stays as it is.
FetchInterrupted ==
  /\ fetching # None
  /\ fetching[1].at \in {"read", "write"}
  /\ fetching' = Some([fetching[1] EXCEPT !.at = "failed"])
  /\ last' = [op |-> "fetch_catalog", pair |-> fetching[1].pair,
              raised |-> "KeyboardInterrupt", value |-> <<>>]
  /\ UNCHANGED <<cvars, dvars, reads, defaults_file>>

InitFetch ==
  /\ \E old \in {None} \cup {Some(csv) : csv \in Served} :
       cache = [q \in (IF old = None THEN {} ELSE {<<"en", "all">>}) |-> old[1]]
  /\ disk = [q \in {} |-> OldFile]
  /\ dirs = {}
  /\ obj = NewCatalog("en", "all")
  /\ Idle
  /\ reads = <<>>
  /\ last = NoCall
  /\ defaults_file = None
  /\ fetching = None

NextFetch ==
  \/ ReadExcel
  \/ OpenCache
  \/ WriteRow
  \/ CloseCache
  \/ FetchInterrupted

SpecFetch == InitFetch /\ [][NextFetch]_vars

\* ------------------------------------------------------------------------
\* The table of a cached spreadsheet
\* ------------------------------------------------------------------------

InitTable ==
  /\ \E csv \in Snapshots : cache = [q \in {<<"en", "all">>} |-> csv]
  /\ disk = [q \in {} |-> OldFile]
  /\ dirs = {}
  /\ obj = NewCatalog("en", "all")
  /\ Idle
  /\ reads = <<>>
  /\ last = NoCall
  /\ defaults_file = None
  /\ fetching = None

NextTable ==
  \/ ReadDataframe
  \/ ReadPackages

SpecTable == InitTable /\ [][NextTable]_vars

\* The table of a cached spreadsheet, read while the cache file is deleted,
\* fetched again, or written by the other Catalog objects of all_catalogs().
NextStable ==
  \/ ReadDataframe
  \/ ReadPackages
  \/ CleanCatalog
  \/ FetchCatalog
  \/ ListAllCatalogs

SpecStable == InitTable /\ [][NextStable]_vars

\* ------------------------------------------------------------------------
\* The table of a spreadsheet with one row, whatever its source reference
\* ------------------------------------------------------------------------

\* The values of the DOI URL column: non-empty strings of letters and slashes.
References ==
  UNION { [1..n -> {"a", "/"}] : n \in 1..MaxRefLen }

\* self.content_url(textbook.uid, file_format) for a textbook of the table.
ReadContentUrl ==
  /\ obj.dataframe # None
  /\ \E k \in 1..Len(obj.dataframe[1]), f \in FileFormat :
       last' = [op |-> "content_url", pair |-> Pair(obj), raised |-> "none",
                value |-> ContentUrl(obj.dataframe[1][k].uid, f),
                uid |-> obj.dataframe[1][k].uid, file_format |-> f]
  /\ reads' = <<>>
  /\ UNCHANGED <<cvars, dvars, defaults_file, fetching>>

InitReference ==
  /\ \E ref \in References :
       cache = [q \in {<<"en", "all">>} |->
                  <<[title |-> <<"b">>, author |-> <<"x">>, package_name |-> <<"S">>,
                     doi_url |-> ref]>>]
  /\ disk = [q \in {} |-> OldFile]
  /\ dirs = {}
  /\ obj = NewCatalog("en", "all")
  /\ Idle
  /\ reads = <<>>
  /\ last = NoCall
  /\ defaults_file = None
  /\ fetching = None

NextReference ==
  \/ ReadDataframe
  \/ ReadContentUrl

SpecReference == InitReference /\ [][NextReference]_vars

\* ------------------------------------------------------------------------
\* Properties of the Catalog class
\* ------------------------------------------------------------------------

\* C6: Unregistered identity rejection.  Catalog(language, topic, fetch) for a
\* pair that has no source URL raises KeyError and reads no URL, whatever
\* cache files exist and whatever fetch is.
C6_UnregisteredRejected ==
  (last.op = "Catalog" /\ last.pair \notin DOMAIN CatalogUrls)
    => last.raised = "KeyError" /\ reads = <<>>

\* C7: Fetch invalidates the table.  When fetch_catalog has completed on a
\* Catalog whose table was materialized, the next access to the table gives
\* the table of the cache file fetch_catalog wrote.
C7_FetchInvalidates ==
  [][(ReadDataframe /\ last.op = "fetch_catalog" /\ last.raised = "none"
        /\ obj.dataframe # None)
       => last'.value = Dataframe(cache[Pair(obj)])]_vars

\* C9: all_catalogs yields a Catalog for exactly the pairs that have a source
\* URL, in the order of product(Language, Topic), and raises nothing.
C9_AllCatalogsRegistered ==
  last.op = "all_catalogs"
    => /\ last.raised = "none"
       /\ last.value = SelectSeq(Product, LAMBDA q : q \in DOMAIN CatalogUrls)

\* The rows of the groups of pk, one after the other.
RowsOf(pk) == Flatten([g \in 1..Len(pk) |-> pk[g].pkg])

\* C10: Group partition completeness.  For every materialized table, the
\* groups of packages partition its rows: each row is in exactly one group,
\* once, and that group is named by its package_name; no group holds anything
\* else; the keys are in ascending order.
C10_GroupPartition ==
  obj.packages # None
    => LET df == obj.dataframe[1]
           pk == obj.packages[1]
           rows == RowsOf(pk)
       IN  /\ Len(rows) = Len(df)
           /\ \A k \in 1..Len(df) :
                /\ Cardinality({j \in 1..Len(rows) : rows[j] = df[k]}) = 1
                /\ \A g \in 1..Len(pk) :
                     (\E j \in 1..Len(pk[g].pkg) : pk[g].pkg[j] = df[k])
                       <=> pk[g].name = df[k].package_name
           /\ \A g, h \in 1..Len(pk) : g < h => StrLess(pk[g].name, pk[h].name)

\* packages was read on a table of three rows in two groups.
C10_Witness ==
  /\ last.op = "packages"
  /\ obj.packages # None
  /\ Len(obj.dataframe[1]) = 3
  /\ Len(obj.packages[1]) = 2
  /\ last.value = obj.packages[1]

\* The number of "/" in s.
Slashes(s) == Cardinality({k \in 1..Len(s) : s[k] = "/"})

\* The source reference of the only row of the cache file of obj.
Reference == cache[Pair(obj)][1].doi_url

\* C11: Malformed reference rejection.  When the source reference of a row
\* has fewer than two "/"-separated segments (no "/" at all), making the
\* table fails: self.dataframe raises and no row with a uid is made.
C11_MalformedRejected ==
  (last.op = "dataframe" /\ Slashes(Reference) = 0)
    => last.raised # "none" /\ obj.dataframe = None

\* u is the end of s from its last "/" but one on (all of s when s has one "/").
IsLastTwoSegments(u, s) ==
  /\ Len(u) <= Len(s)
  /\ u = SubSeq(s, Len(s) - Len(u) + 1, Len(s))
  /\ Slashes(u) = 1
  /\ Len(u) = Len(s) \/ s[Len(s) - Len(u)] = "/"

\* C12: Content-id extraction.  For every source reference with at least two
\* "/"-separated segments the uid of the row is its last two segments joined
\* by "/", and content_url(uid, format) is the content base URL of the format,
\* "/", the uid, "." and the format, made without reading any URL.
C12_ContentId ==
  /\ (last.op = "dataframe" /\ Slashes(Reference) >= 1)
       => /\ last.raised = "none"
          /\ IsLastTwoSegments(last.value[1].uid, Reference)
  /\ last.op = "content_url"
       => /\ last.value[1] = ContentUrls[last.file_format]
          /\ last.value[2] = "/"
          /\ SubSeq(last.value, 3, Len(last.value) - 2) = last.uid
          /\ SubSeq(last.value, Len(last.value) - 1, Len(last.value))
               = <<".", last.file_format>>
          /\ reads = <<>>
          /\ gets = <<>>

\* The content URL was made for a uid taken from a reference of three segments.
C12_Witness ==
  /\ last.op = "content_url"
  /\ Reference = <<"a", "/", "a", "/", "a">>
  /\ last.uid = <<"a", "/", "a">>
  /\ last.file_format = "epub"

\* C17: Transport errors are per-item.  When requests.get for a textbook does
\* not give a response to stream (a non-success response, or an exception of
\* the HTTP library), download_textbook records a failure and returns 0, and
\* the batch goes on with the next textbook.
C17_TransportErrorPerItem ==
  [][(GetTextbook /\ gets' # gets /\ pc' # "open")
       => /\ outs' = Append(outs, Outcome(Path, Path \in DOMAIN disk, "fail", 0))
          /\ total' = total
          /\ i' = i + 1
          /\ pc' = "batch"
          /\ exc' = NoExc]_vars

\* C18: Destination creation.  When download_textbook has a success response
\* and the destination directory does not exist, it makes the directory and
\* creates the file in it.
C18_DestinationCreated ==
  [][(OpenFile /\ dest \notin dirs) => (dest \in dirs' /\ Path \in DOMAIN disk')]_vars

\* a comes before b in (title, then author) order, or ties with it.
InOrder(a, b) ==
  \/ StrLess(a.title, b.title)
  \/ a.title = b.title /\ ~StrLess(b.author, a.author)

\* The position of row in table (the rows of a table are distinct).
IndexIn(table, row) == CHOOSE k \in 1..Len(table) : table[k] = row

\* rows is made of rows of table, in the order they have in table.
KeepsOrderOf(rows, table) ==
  /\ \A k \in 1..Len(rows) : \E j \in 1..Len(table) : table[j] = rows[k]
  /\ \A j, k \in 1..Len(rows) :
       j < k => IndexIn(table, rows[j]) < IndexIn(table, rows[k])

\* C20: Canonical processing order.  The textbooks of every batch (whole
\* catalog, or the subset of a title or of a package) are in ascending (title,
\* then author) order and keep the order of the full table; requests are made
\* and files written for one textbook at a time, in that order: a request is
\* for the current textbook, a file that changes is the file of the current
\* textbook, and the batch moves to the next textbook only once the current
\* one was written, failed or skipped.
C20_CanonicalOrder ==
  /\ [](/\ \A j, k \in 1..Len(batch) : j < k => InOrder(batch[j], batch[k])
        /\ \E c \in DOMAIN cache : KeepsOrderOf(batch, Dataframe(cache[c]))
        /\ Len(outs) = i - 1
        /\ \A k \in 1..Len(outs) : outs[k].path = BatchPaths[k]
        /\ \A p \in DOMAIN disk : ~disk[p].done => (pc \in {"stream", "end"} /\ p = Path))
  /\ [][gets' # gets /\ phase' = phase
          => pc = "batch" /\ gets' = Append(gets, Url)]_vars
  /\ [][disk' # disk
          => /\ pc \in {"open", "stream"}
             /\ \A p \in (DOMAIN disk \cup DOMAIN disk') \ {Path} :
                  p \in DOMAIN disk /\ p \in DOMAIN disk' /\ disk'[p] = disk[p]]_vars
  /\ [][i' # i /\ todo' = todo /\ phase' = phase
          => i' = i + 1 /\ Len(outs') = i /\ pc' = "batch"]_vars

\* A batch of three textbooks, made from a title, was fetched to its end: one
\* request per textbook, in the order of the batch.
C20_Witness ==
  /\ pc = "end"
  /\ exc = NoExc
  /\ cmd.component = "books"
  /\ cmd.name # NoName
  /\ Len(batch) = 3
  /\ batch[1].title # batch[3].title
  /\ gets = [k \in 1..3 |-> ContentUrl(batch[k].uid, cmd.file_format)]

\* C13: Catalog equality.  Two Catalog instances compare equal if and only if
\* their (language, topic) are equal, whether or not either has a cache file,
\* a table already read, or a table older than the cache file; the comparison
\* of a Catalog with an object that is not a Catalog is false.
C13_Equality ==
  last.op = "eq"
    => last.value = (/\ last.other.class = "Catalog"
                     /\ Pair(last.other.self) = last.pair)

\* C14: save_defaults merges.  After save_defaults the defaults file holds the
\* language and topic of the catalog, and every other key the file had before
\* the call is still there with the value it had; when the file was absent the
\* call takes it as empty and writes it, without raising.
C14_SaveDefaultsMerges ==
  [][SaveDefaults
       => /\ defaults_file' # None
          /\ last'.raised = "none"
          /\ LET before == IF defaults_file = None THEN EmptyDict ELSE defaults_file[1]
                 after == defaults_file'[1]
             IN  /\ DOMAIN after = DOMAIN before \cup {"language", "topic"}
                 /\ after["language"] = obj.language
                 /\ after["topic"] = obj.topic
                 /\ \A k \in DOMAIN before \ {"language", "topic"} : after[k] = before[k]]_vars

\* The defaults of a catalog were saved over a file that held another language
\* and a key of the user's own, which is still there.
C14_Witness ==
  /\ last.op = "save_defaults"
  /\ last.before # None
  /\ DOMAIN last.before[1] = {"language", "theme"}
  /\ last.before[1]["language"] # last.pair[1]
  /\ defaults_file # None
  /\ defaults_file[1]["theme"] = "dark"
  /\ defaults_file[1]["language"] = last.pair[1]

\* C19: Persisted default identity.  Once c.save_defaults() returned, and
\* until the next save_defaults, whatever fetches, cleans, listings or downloads
\* happen: a Catalog made with no language and no topic has those of c, and
\* is_default is true of the catalogs that have them and of no other; nothing
\* but save_defaults changes the defaults file.
C19_PersistedDefault ==
  /\ [][SaveDefaults
          => /\ defaults_file'[1]["language"] = obj.language
             /\ defaults_file'[1]["topic"] = obj.topic
             /\ DefaultPair(defaults_file') = <<obj.language, obj.topic>>]_vars
  /\ [][defaults_file' # defaults_file => SaveDefaults]_vars
  /\ [][(NewDefaultObject /\ last'.raised = "none")
          => /\ defaults_file # None /\ {"language", "topic"} \subseteq DOMAIN defaults_file[1]
                => (/\ obj'.language = defaults_file[1]["language"]
                    /\ obj'.topic = defaults_file[1]["topic"])
             /\ "language" \notin DOMAIN Defaults(defaults_file) => obj'.language = "en"
             /\ "topic" \notin DOMAIN Defaults(defaults_file) => obj'.topic = "all"]_vars
  /\ [][(IsDefault /\ defaults_file # None
           /\ {"language", "topic"} \subseteq DOMAIN Defaults(defaults_file))
          => last'.value = (/\ obj.language = defaults_file[1]["language"]
                            /\ obj.topic = defaults_file[1]["topic"])]_vars

\* The defaults of a catalog other than en-all were saved, the catalog was
\* downloaded, and is_default of it is true afterwards.
C19_Witness ==
  /\ last.op = "is_default"
  /\ last.value
  /\ pc = "end"
  /\ gets # <<>>
  /\ last.pair = <<"de", "all">>
  /\ defaults_file # None
  /\ defaults_file[1]["language"] = "de"

\* The step reads nothing from the network and leaves the cache files alone.
NoFetch == reads' = <<>> /\ cache' = cache /\ last'.raised = "none"

\* The step fetched the spreadsheet of `pair` from its registered URL into the
\* cache file of `pair`, which was absent, or raised KeyError for want of a URL.
FetchedAbsent(pair) ==
  IF pair \in DOMAIN CatalogUrls
  THEN /\ last'.raised = "none"
       /\ reads' = <<CatalogUrls[pair]>>
       /\ DOMAIN cache' = DOMAIN cache \cup {pair}
       /\ \A q \in DOMAIN cache : cache'[q] = cache[q]
  ELSE /\ last'.raised = "KeyError"
       /\ reads' = <<>>
       /\ cache' = cache

\* C15: ensure_cached.  When the table of a Catalog is first materialized (by
\* reading dataframe or packages), the spreadsheet is fetched if and only if
\* the cache file is absent; when the cache file exists, constructing the
\* Catalog and materializing its table read nothing from the network and do
\* not rewrite the cache file; a constructor fetches only an absent cache file.
C15_EnsureCached ==
  /\ [][((ReadDataframe \/ ReadPackages) /\ obj.dataframe = None /\ obj.packages = None)
          => IF Pair(obj) \in DOMAIN cache
             THEN NoFetch /\ obj'.dataframe = Some(Dataframe(cache[Pair(obj)]))
             ELSE FetchedAbsent(Pair(obj))]_vars
  /\ [][NewObject
          => IF last'.pair \in DOMAIN cache
             THEN NoFetch /\ Pair(obj') = last'.pair /\ obj'.dataframe = None
             ELSE NoFetch \/ FetchedAbsent(last'.pair)]_vars

\* A Catalog made without fetching, whose cache file was absent, fetched the
\* spreadsheet when its table was first read.
C15_Witness ==
  /\ last.op = "dataframe"
  /\ last.raised = "none"
  /\ last.pair = <<"de", "med">>
  /\ reads = <<CatalogUrls[<<"de", "med">>]>>
  /\ obj.dataframe = Some(Dataframe(cache[<<"de", "med">>]))

\* C16: Atomic cache replacement.  At every point of a fetch_catalog, and
\* after one that failed or was interrupted at any step, the cache file is
\* either the complete spreadsheet it held before the fetch (or absent, if it
\* was) or the complete new one, never a part of it.
C16_AtomicReplacement ==
  fetching # None
    => \/ CacheFile(cache, fetching[1].pair) = fetching[1].old
       \/ CacheFile(cache, fetching[1].pair) = Some(fetching[1].new)

\* The requests of the batch so far are one for each textbook that was fetched
\* or answered with a non-success status, and at most one more, for the
\* textbook download_textbook is at (or ended on).
OneGetEach ==
  LET done == Len(WithStatus(outs, "ok")) + Len(WithStatus(outs, "fail"))
  IN  IF pc = "batch" THEN Len(gets) = done ELSE Len(gets) \in {done, done + 1}

\* A non-success response for a textbook whose file was absent leaves it absent.
FailLeavesAbsent ==
  [][(GetTextbook /\ Len(outs') > Len(outs) /\ outs'[Len(outs')].status = "fail"
        /\ Path \notin DOMAIN disk)
       => Path \notin DOMAIN disk']_vars

\* In the second run, the textbooks the first run got a non-success response
\* for while their file was absent are requested again, not skipped.
FailedAreRetried ==
  phase = 2
    => \A k \in 1..Len(outs) :
         (k <= Len(prev[1].outs) /\ prev[1].outs[k].status = "fail"
            /\ ~prev[1].outs[k].existed)
           => outs[k].status \in {"ok", "fail"}

\* C21: No retries, natural retry on the next run.  Within one batch run each
\* textbook is requested at most once; a non-success response for a textbook
\* whose file was absent leaves the file absent; the next run of the batch
\* without overwrite requests that textbook again, when no other textbook of
\* the batch has the same target path.
C21_NaturalRetry ==
  /\ []OneGetEach
  /\ FailLeavesAbsent
  /\ [](DistinctPaths => FailedAreRetried)

\* The second run fetched the first textbook of a batch of two with distinct
\* paths, which the first run had got a non-success response for.
C21_Witness ==
  /\ phase = 2
  /\ DistinctPaths
  /\ Len(batch) >= 2
  /\ Len(outs) >= 1
  /\ prev[1].outs # <<>>
  /\ prev[1].outs[1].status = "fail"
  /\ ~prev[1].outs[1].existed
  /\ outs[1].status = "ok"
  /\ Len(gets) = 1

\* C21 as stated: the next run requests the textbook again, whatever the
\* other textbooks of the batch.
C21_Original ==
  /\ []OneGetEach
  /\ FailLeavesAbsent
  /\ []FailedAreRetried

RECURSIVE BatchRecords(_)
\* The records the first k textbooks of the batch are to have in the report:
\* one for a skipped textbook, with its path, one for a textbook answered with
\* a non-success status, with the response and its URL, none for one fetched.
BatchRecords(k) ==
  IF k = 0 THEN <<>>
  ELSE BatchRecords(k - 1) \o
         (CASE outs[k].status = "none" ->
                 <<[message |-> "Skipped", path |-> outs[k].path]>>
            [] outs[k].status = "fail" ->
                 <<[message |-> "Response", response |-> "fail",
                    url |-> ContentUrl(batch[k].uid, cmd.file_format)]>>
            [] OTHER -> <<>>)

\* The records of the report that are not of an interrupt.
NotAborted(log) == LET Test(r) == r.message # "User aborted" IN SelectSeq(log, Test)

\* C22: Report log.  A batch run adds to the download report exactly one
\* record for each skipped textbook, with its target path, exactly one for each
\* textbook whose fetch was answered with a non-success status, with the
\* response and the URL, and none for a textbook that was downloaded; the
\* records are in the order of the batch and earlier records stay.
C22_ReportLog ==
  /\ [](LET r == BatchRecords(Len(outs))
            n == Len(NotAborted(report))
        IN  /\ n >= Len(r)
            /\ SubSeq(NotAborted(report), n - Len(r) + 1, n) = r
            /\ cmd.component \in {"books", "catalog"} => NotAborted(report) = r)
  /\ [][report' # report
          => /\ GetTextbook \/ Interrupt
             /\ Len(report') = Len(report) + 1
             /\ SubSeq(report', 1, Len(report)) = report]_vars
  /\ [][(GetTextbook /\ outs' # outs)
          => /\ Len(report') = Len(report) + 1
             /\ report'[Len(report')] \in
                  {[message |-> "Skipped", path |-> Path],
                   [message |-> "Response", response |-> "fail", url |-> Url]}]_vars
  /\ [][(ReturnSize \/ OpenFile \/ WriteChunk \/ EndBatch \/ (GetTextbook /\ pc' = "open"))
          => report' = report]_vars

\* A batch of three textbooks has ended: one was skipped, one answered with a
\* non-success status, one downloaded; the report has two records.
C22_Witness ==
  /\ pc = "end"
  /\ exc = NoExc
  /\ cmd.component = "catalog"
  /\ Len(outs) = 3
  /\ \E j, k, l \in 1..3 :
       outs[j].status = "none" /\ outs[k].status = "fail" /\ outs[l].status = "ok"
  /\ Len(report) = 2

\* C23: Table stability.  Once the table of a Catalog is materialized, every
\* later read of dataframe and of packages (and of textbooks, which iterates
\* dataframe) gives the same rows in the same order and the same groups, with
\* the cache file deleted or rewritten in the meantime; the groups are those of
\* that table; nothing is read from the network or written for it.
C23_TableStability ==
  /\ [][(obj.dataframe # None /\ ~NewObject) => obj'.dataframe = obj.dataframe]_vars
  /\ [][(obj.packages # None /\ ~NewObject) => obj'.packages = obj.packages]_vars
  /\ [](obj.packages # None
          => obj.dataframe # None /\ obj.packages[1] = Packages(obj.dataframe[1]))
  /\ [][(ReadDataframe /\ obj.dataframe # None)
          => /\ last'.raised = "none"
             /\ last'.value = obj.dataframe[1]
             /\ cache' = cache
             /\ reads' = <<>>]_vars
  /\ [][(ReadPackages /\ obj.dataframe # None)
          => /\ last'.raised = "none"
             /\ last'.value = Packages(obj.dataframe[1])
             /\ cache' = cache
             /\ reads' = <<>>]_vars

\* The groups were read from a Catalog whose table had been read and whose
\* cache file was deleted since: they are the groups of that table.
C23_Witness ==
  /\ last.op = "packages"
  /\ last.raised = "none"
  /\ obj.dataframe # None
  /\ Len(obj.dataframe[1]) = 3
  /\ Len(last.value) = 2
  /\ Pair(obj) \notin DOMAIN cache
  /\ last.value = Packages(obj.dataframe[1])

\* C24: No truncated file on any exit.  Whenever download_textbook has ended
\* (by returning, by the user's interrupt, or by an error raised while the
\* body is streamed), a file is at the target path only if its whole body was
\* written: outside download_textbook every file below the destination is
\* complete.
C24_NoTruncatedFile ==
  pc \in {"idle", "loop", "batch", "end"} => \A p \in DOMAIN disk : disk[p].done

\* C25: Existing files are never lost.  A complete file that was at the target
\* path of a textbook before download_textbook was called is there, complete
\* (the old one or the new one), after the call, with overwrite or without,
\* whether the textbook was skipped, answered with a non-success status,
\* downloaded, or interrupted by the user.
C25_ExistingFilesKept ==
  (pc \in {"idle", "loop", "batch", "end"} /\ exc.type # "ConnectionError")
    => \A p \in DOMAIN disk0 : p \in DOMAIN disk /\ disk[p].done

\* C26: Per-package download writes each entry once.  In `download packages`
\* every textbook is requested once and every file the command writes is the
\* file of a textbook in the directory of that textbook's own package, also
\* when one package name is a substring of another.
C26_PackagesOnce ==
  (cmd.component = "packages" /\ obj.dataframe # None)
    => /\ Len(gets) <= Len(obj.dataframe[1])
       /\ \A p \in DOMAIN disk \ DOMAIN disk0 :
            \E k \in 1..Len(obj.dataframe[1]) :
              LET row == obj.dataframe[1][k]
              IN  p = TargetPath(Root \o <<PackageDir(row.package_name)>>, row,
                                 cmd.file_format)

\* C27: The two batch paths are equivalent.  For the same table, destination,
\* format, overwrite flag and responses, the plain loop of download_dataframe
\* and download_dataframe_animated make the same requests in the same order,
\* leave the same files and return the same total (and the same report); the
\* progress bar has gone through every textbook.
C27_LoopsEquivalent ==
  last.op = "download_dataframe"
    => /\ last.animated.gets = last.plain.gets
       /\ last.animated.disk = last.plain.disk
       /\ last.animated.total = last.plain.total
       /\ last.animated.report = last.plain.report
       /\ last.bar.pos = Len(last.call.dataframe)
       /\ disk \in {last.plain.disk, last.animated.disk}

\* Both loops went through three textbooks, one skipped, one answered with a
\* non-success status and one downloaded, and returned its size.
C27_Witness ==
  /\ last.op = "download_dataframe"
  /\ Len(last.call.dataframe) = 3
  /\ Len(last.plain.gets) = 2
  /\ Len(last.plain.report) = 2
  /\ last.plain.total > 0
  /\ last.animated.total = last.plain.total
  /\ last.bar.pos = 3

\* C28: Identity resolution at construction.  A language or topic given to the
\* constructor is used as given; each one left out is taken, independently of
\* the other, from the defaults file, or is "en" (language) / "all" (topic)
\* when the file is absent or has no such key.
C28_IdentityResolution ==
  [][(NewCatalogObject /\ last'.raised = "none")
       => LET stored == IF defaults_file = None THEN [k \in {} |-> ""] ELSE defaults_file[1]
          IN  /\ obj'.language =
                   (IF last'.language # None THEN last'.language[1]
                    ELSE IF "language" \in DOMAIN stored THEN stored["language"] ELSE "en")
              /\ obj'.topic =
                   (IF last'.topic # None THEN last'.topic[1]
                    ELSE IF "topic" \in DOMAIN stored THEN stored["topic"] ELSE "all")
              /\ defaults_file' = defaults_file]_vars

\* A Catalog made with the language "de" only, the defaults file holding "en"
\* and "med": it is the catalog de-med.
C28_Witness ==
  /\ last.op = "Catalog(language, topic)"
  /\ last.raised = "none"
  /\ last.language = <<"de">>
  /\ last.topic = <<>>
  /\ defaults_file # None
  /\ DOMAIN defaults_file[1] = {"language", "topic"}
  /\ defaults_file[1]["language"] = "en"
  /\ defaults_file[1]["topic"] = "med"
  /\ obj.language = "de"
  /\ obj.topic = "med"

====
